---- MODULE Spec2Model ----
(***************************************************************************)
(* A model of the memory-mapped crate: the mapping request builder         *)
(* (open_options.rs), the raw mapping primitive (raw_memory_mapping.rs)    *)
(* and the typed view with its resize family and iterator (lib.rs),        *)
(* together with the part of the kernel the crate talks to (mmap, mremap,  *)
(* munmap, the backing file).                                              *)
(*                                                                         *)
(* Numbers are scaled down: a page has PageSize bytes, an element          *)
(* ElemSize bytes and usize counts modulo UsizeMod.  The backing file is   *)
(* three pages long, as at the end of tests::test_shared_resize.           *)
(***************************************************************************)
EXTENDS Integers, Sequences, FiniteSets, TLC

\* ---------------------------------------------------------------- constants

\* page_size(): sysconf(_SC_PAGE_SIZE), scaled down
PageSize == 4
\* std::mem::size_of::<T>() of the slice element, scaled down
ElemSize == 2
\* usize arithmetic is modulo UsizeMod (2^64 on the real target)
UsizeMod == 64

\* ------------------------------------------------------------------- bounds

\* largest element count handed to len(), offset() and the resize family
MaxLen == 3
\* mappings created in one run
MaxOpens == 2
\* mappings created in one run of the processes that hold several at once
MaxHeld == 3
\* resize calls made in one run
MaxResizes == 2

\* ------------------------------------------------------------------ domains

Views == {1, 2, 3}
Addrs == {1, 2, 3}
NoAddr == 0
NoFile == <<-1>>
\* the backing file, when it exists at the start: three pages, byte j holding j
InitFileLen == 3 * PageSize
InitFile == [j \in 1 .. InitFileLen |-> j]
AddrLimit == UsizeMod \div 2
\* byte offsets a request is given: both pages' starts, every padding of the
\* first page, and an unaligned offset past the file's end
ByteOffsets == (0 .. PageSize) \cup {InitFileLen + 1}
\* byte lengths a request is given: 0 (infer), whole elements, one length that
\* is not a whole number of elements, and the largest usize
ByteLens == {n * ElemSize : n \in 0 .. MaxLen} \cup {ElemSize + 1, UsizeMod - 1}
\* the values written to a slice's first and last element
SentinelFirst == 17
SentinelLast == 34
\* the fill value of resize and the values the generator of resize_with returns
FillValue == 51
GenBase == 60
ReadWrite == [read |-> TRUE, write |-> TRUE]
HandleModes == {[read |-> TRUE, write |-> FALSE], [read |-> TRUE, write |-> TRUE],
                [read |-> FALSE, write |-> TRUE]}

VARIABLES
    overflow_checks, \* the build panics on integer overflow (debug) or wraps (release)
    proc,            \* "running", or "aborted" after a fatal fault
    file,            \* the backing file's bytes, or NoFile while it does not exist
    opts,            \* the OpenOptions builder in use, or NoOpts
    view,            \* per view: its state, its RawMemoryMapping {ptr, byte_size, byte_offset}
                     \* and whether an open_shared function made it
    os,              \* the kernel's regions by base address: {id, len, foff, shared, write, cow}
    unmapped,        \* per kernel mapping id: the munmap calls made on it
    nmaps,           \* mappings created so far
    nresizes,        \* calls of the resize family so far
    last,            \* the most recent call: what was asked and what came back
    trip,            \* the sentinels written through the mapping opened last, and its range
    written          \* per file position: the byte stored there last through a view
                     \* that an open_shared function made

vars == <<overflow_checks, proc, file, opts, view, os, unmapped, nmaps, nresizes, last, trip,
          written>>

\* ------------------------------------------------------------ usize, pages

WrapAdd(a, b) == (a + b) % UsizeMod
WrapSub(a, b) == (a - b) % UsizeMod
WrapMul(a, b) == (a * b) % UsizeMod
AddOverflows(a, b) == a + b >= UsizeMod
SubOverflows(a, b) == a < b
MulOverflows(a, b) == a * b >= UsizeMod

page_size == PageSize

PageUp(n) == ((n + PageSize - 1) \div PageSize) * PageSize

Min(a, b) == IF a < b THEN a ELSE b

\* ------------------------------------------------------------ OpenOptions

NoOpts == [kind |-> "none"]

\* OpenOptions::new
OptionsNew(kind) ==
    [kind |-> kind, read |-> FALSE, write |-> FALSE, create |-> FALSE,
     create_new |-> FALSE, shared |-> FALSE, byte_offset |-> 0, byte_len |-> 0]

get_mmap_protection(o) == [read |-> o.read, write |-> o.write]

\* a get_mmap_flags that ignores the shared flag
get_mmap_flags_private(o) == "MAP_PRIVATE"

\* a get_mmap_flags that always asks for a shared mapping
get_mmap_flags_shared(o) == "MAP_SHARED"

get_mmap_flags(o) == IF o.shared THEN "MAP_SHARED" ELSE "MAP_PRIVATE"

\* a with_shared that hands the request on as it is
with_shared_ignored(o, shared) == o

with_shared(o, shared) == [o EXCEPT !.shared = shared]

\* get_fs_open_options().open(path): std::fs::OpenOptions with read, write,
\* create and create_new set (never truncate or append), applied to the file.
\* Result: the handle's access mode and the file afterwards, or an errno.
FsOpen(o, f) ==
    IF ~o.read /\ ~o.write THEN [ok |-> FALSE, errno |-> "EINVAL", file |-> f]
    ELSE IF (o.create \/ o.create_new) /\ ~o.write
        THEN [ok |-> FALSE, errno |-> "EINVAL", file |-> f]
    ELSE IF o.create_new /\ f # NoFile THEN [ok |-> FALSE, errno |-> "EEXIST", file |-> f]
    ELSE IF ~o.create_new /\ ~o.create /\ f = NoFile
        THEN [ok |-> FALSE, errno |-> "ENOENT", file |-> f]
    ELSE [ok |-> TRUE, errno |-> "", file |-> IF f = NoFile THEN <<>> ELSE f,
          mode |-> [read |-> o.read, write |-> o.write]]

\* --------------------------------------------------------------- the kernel

NoRegion == [id |-> 0]

FreeAddrs == {a \in Addrs : os[a] = NoRegion}

\* the address the kernel places a new region at: the lowest free one outside
\* `not` (the program never looks at the value, only keeps it)
LowestFree(not) == CHOOSE a \in FreeAddrs \ not : \A b \in FreeAddrs \ not : a <= b

\* libc::mmap(null, len, prot, flags, fd, foff): the errno it fails with for
\* certain, or "" when it can succeed (it may still fail with ENOMEM)
MmapErrno(len, prot, flags, mode, foff) ==
    IF len = 0 \/ foff % PageSize # 0 THEN "EINVAL"
    ELSE IF ~mode.read \/ (flags = "MAP_SHARED" /\ prot.write /\ ~mode.write) THEN "EACCES"
    ELSE IF len > AddrLimit \/ FreeAddrs = {} THEN "ENOMEM"
    ELSE ""

\* the byte a region shows at file position idx
ReadByte(r, idx) ==
    IF idx \in DOMAIN r.cow THEN r.cow[idx]
    ELSE IF file # NoFile /\ idx < Len(file) THEN file[idx + 1]
    ELSE 0

\* ------------------------------------------------------- RawMemoryMapping

NoMapping == [ptr |-> NoAddr, byte_size |-> 0, byte_offset |-> 0]

\* RawMemoryMapping::open, up to the mmap call: the arguments it passes
RawOpenDelta(o) == o.byte_offset % page_size
RawOpenSize(o) == WrapAdd(o.byte_len, RawOpenDelta(o))
RawOpenFileOffset(o) == o.byte_offset - RawOpenDelta(o)
RawOpenPanics(o) == overflow_checks /\ AddOverflows(o.byte_len, RawOpenDelta(o))

\* a RawMemoryMapping::open that records the requested length, not the mapped one
RawOpenResultUnpadded(o, ptr) ==
    [ptr |-> ptr, byte_size |-> o.byte_len, byte_offset |-> RawOpenDelta(o)]

\* RawMemoryMapping::open, after a successful mmap at ptr
RawOpenResult(o, ptr) ==
    [ptr |-> ptr, byte_size |-> RawOpenSize(o), byte_offset |-> RawOpenDelta(o)]

segment_byte_len(m) == WrapSub(m.byte_size, m.byte_offset)
segment_byte_len_panics(m) == overflow_checks /\ SubOverflows(m.byte_size, m.byte_offset)

\* a segment_ptr that returns the base pointer
segment_pos_base(m) == os[m.ptr].foff

\* segment_ptr, as the file position the logical region starts at
segment_pos(m) == os[m.ptr].foff + m.byte_offset

\* ------------------------------------------------------------- typed views

NoView == [st |-> "none", kind |-> "none", m |-> NoMapping, cur_ix |-> 0, shared |-> FALSE]

Live(v) == view[v].st \in {"uninit", "init", "iter"}
Vacant(v) == view[v].st \in {"none", "dropped"}

\* as_slice().len()
SliceLen(m) == segment_byte_len(m) \div ElemSize

\* element i lies inside the mapped pages and inside the file
Accessible(m, i) ==
    /\ m.byte_offset + (i + 1) * ElemSize <= PageUp(os[m.ptr].len)
    /\ file # NoFile
    /\ segment_pos(m) + (i + 1) * ElemSize <= Len(file)

\* element i of the slice, as its bytes
Elem(m, i) == [k \in 1 .. ElemSize |-> ReadByte(os[m.ptr], segment_pos(m) + i * ElemSize + k - 1)]

\* the leading elements of the slice that can be read, in order
RECURSIVE ElemsFrom(_, _)
ElemsFrom(m, i) ==
    IF i < SliceLen(m) /\ Accessible(m, i) THEN <<Elem(m, i)>> \o ElemsFrom(m, i + 1) ELSE <<>>
Elems(m) == ElemsFrom(m, 0)

\* ------------------------------------------------------------------ history

NoGrow == [n |-> 0, old |-> <<>>]

\* op, v: the call and the view it was made on; res: "ok", "err", "panic",
\* (for next) "some" or "none"; errno: the OS error an "err" carries;
\* variant: the open function called ("path" for open and open_slice, "file"
\* and "fd" for the _from_file and _from_fd forms, "shared_" before it for the
\* open_shared forms); off, arg, shared: the request it resolved;
\* arg: a resize's new_len; calls: the generator calls a resize made;
\* item: what next returned; grow: after a successful resize_with from n >= 1
\* to 2n elements, n and the elements before it; req: the requests
\* (byte_offset, byte_len) that RawMemoryMapping::open received during the
\* call; mmap: the mmap calls that were issued during it, by length and
\* file offset
NoCall == [op |-> "none", v |-> 0, res |-> "none", errno |-> "", variant |-> "",
           off |-> 0, arg |-> 0, shared |-> FALSE, calls |-> 0, item |-> <<>>,
           grow |-> NoGrow, req |-> <<>>, mmap |-> <<>>]

Call(op, v) == [NoCall EXCEPT !.op = op, !.v = v]

\* phase: "none", "open" while the mapping that was opened last is in use,
\* "closed" once it is dropped, "reopened" when the next mapping covers the
\* same range; pos, len: the range, as a file position and an element count;
\* shared: whether it was requested shared; want: the sentinel stored last at
\* each index written
NoTrip == [phase |-> "none", pos |-> 0, len |-> 0, shared |-> FALSE, want |-> <<>>]

\* --------------------------------------------------------------- round trip

\* `trip` after a step, from the call the step made
TripAfter ==
    LET m2 == view'[last'.v].m
    IN  IF last'.op = "open" /\ last'.res = "ok"
        THEN IF /\ trip.phase = "closed"
                /\ trip.pos = os'[m2.ptr].foff + m2.byte_offset
                /\ trip.len = segment_byte_len(m2) \div ElemSize
             THEN [trip EXCEPT !.phase = "reopened"]
             ELSE [NoTrip EXCEPT !.phase = "open",
                                 !.pos = os'[m2.ptr].foff + m2.byte_offset,
                                 !.len = segment_byte_len(m2) \div ElemSize,
                                 !.shared = last'.shared]
        ELSE IF last'.op \in {"first", "last"} /\ last'.res = "ok" /\ trip.phase = "open"
        THEN LET i == IF last'.op = "first" THEN 0 ELSE trip.len - 1
                 x == IF last'.op = "first" THEN SentinelFirst ELSE SentinelLast
             IN  [trip EXCEPT !.want = [j \in DOMAIN trip.want \cup {i} |->
                                          IF j = i THEN x ELSE trip.want[j]]]
        ELSE IF last'.op \in {"first", "last"} /\ last'.res = "ok" THEN NoTrip
        ELSE IF last'.op = "drop" /\ trip.phase = "open" THEN [trip EXCEPT !.phase = "closed"]
        ELSE IF last'.op = "drop" THEN NoTrip
        ELSE trip

\* --------------------------------------------------------------------- Init

Init ==
    /\ overflow_checks \in BOOLEAN
    /\ proc = "running"
    /\ file \in {NoFile, InitFile}
    /\ opts = NoOpts
    /\ view = [v \in Views |-> NoView]
    /\ os = [a \in Addrs |-> NoRegion]
    /\ unmapped = <<>>
    /\ nmaps = 0
    /\ nresizes = 0
    /\ last = NoCall
    /\ trip = NoTrip
    /\ written = <<>>

\* ------------------------------------------------------------------ builder

\* MemoryMapped::<T>::options() / MemoryMapped::<[T]>::options()
Options(kind) ==
    /\ proc = "running" /\ opts = NoOpts /\ nmaps < MaxOpens
    /\ \A v \in Views : Vacant(v)
    /\ opts' = OptionsNew(kind)
    /\ last' = [Call("options", 0) EXCEPT !.res = "ok"]
    /\ UNCHANGED <<overflow_checks, proc, file, view, os, unmapped, nmaps, nresizes, trip, written>>

SetFlag(field, b) ==
    /\ proc = "running" /\ opts # NoOpts
    /\ opts' = [opts EXCEPT ![field] = b]
    /\ UNCHANGED <<overflow_checks, proc, file, view, os, unmapped, nmaps, nresizes, last, trip, written>>

\* byte_offset(n), byte_len(n)
SetByteOffset(n) ==
    /\ proc = "running" /\ opts # NoOpts
    /\ opts' = [opts EXCEPT !.byte_offset = n]
    /\ UNCHANGED <<overflow_checks, proc, file, view, os, unmapped, nmaps, nresizes, last, trip, written>>

SetByteLen(n) ==
    /\ proc = "running" /\ opts # NoOpts
    /\ opts' = [opts EXCEPT !.byte_len = n]
    /\ UNCHANGED <<overflow_checks, proc, file, view, os, unmapped, nmaps, nresizes, last, trip, written>>

\* setters that take their argument as a byte count
to_bytes_unscaled(n) == n

\* element counts to bytes: n * std::mem::size_of::<T>()
to_bytes(n) == WrapMul(n, ElemSize)

\* OpenOptions<[T]>::offset(element_offset), ::len(len)
SetOffset(k) ==
    /\ proc = "running" /\ opts # NoOpts /\ opts.kind = "slice"
    /\ opts' = [opts EXCEPT !.byte_offset = to_bytes(k)]
    /\ UNCHANGED <<overflow_checks, proc, file, view, os, unmapped, nmaps, nresizes, last, trip, written>>

SetLen(n) ==
    /\ proc = "running" /\ opts # NoOpts /\ opts.kind = "slice"
    /\ opts' = [opts EXCEPT !.byte_len = to_bytes(n)]
    /\ UNCHANGED <<overflow_checks, proc, file, view, os, unmapped, nmaps, nresizes, last, trip, written>>

\* --------------------------------------------------------------- resolution

\* the byte_len that open_from_file / open_slice_from_file hand on: the file's
\* size minus byte_offset when byte_len is 0, else byte_len
open_from_file_len(o, fsize) ==
    IF o.byte_len = 0 THEN WrapSub(fsize, o.byte_offset) ELSE o.byte_len
open_from_file_panics(o, fsize) ==
    overflow_checks /\ o.byte_len = 0 /\ SubOverflows(fsize, o.byte_offset)
open_from_file(o, fsize) == [o EXCEPT !.byte_len = open_from_file_len(o, fsize)]

\* open_from_fd / open_slice_from_fd hand the request on as it is
open_from_fd(o) == o

\* the request RawMemoryMapping::open receives from each resolution variant
FdVariants == {"fd", "shared_fd"}
SharedVariants == {"shared_path", "shared_file", "shared_fd"}
Resolved(o, variant, fsize) ==
    IF variant \in FdVariants THEN open_from_fd(o) ELSE open_from_file(o, fsize)
ResolvePanics(o, variant, fsize) ==
    variant \notin FdVariants /\ open_from_file_panics(o, fsize)

FileSize(f) == IF f = NoFile THEN 0 ELSE Len(f)

OpenCall(v, o, variant, f) ==
    [Call("open", v) EXCEPT !.variant = variant, !.off = o.byte_offset,
                            !.arg = o.byte_len, !.shared = o.shared]

\* One resolution: `o` is the request (after with_shared for the open_shared*
\* functions), `fs` the outcome of opening the path (or of being handed
\* a file or descriptor with access mode hmode).  Covers OpenOptions::open*,
\* open_slice* and RawMemoryMapping::open down to the mmap call and its result.
Resolve(v, o, variant, fs) ==
    LET call == OpenCall(v, o, variant, fs.file)
        ro == Resolved(o, variant, FileSize(fs.file))
        errno == MmapErrno(RawOpenSize(ro), get_mmap_protection(ro), get_mmap_flags(ro),
                           fs.mode, RawOpenFileOffset(ro))
        raw == [call EXCEPT !.req = <<[byte_offset |-> ro.byte_offset,
                                       byte_len |-> ro.byte_len]>>]
        mapped == [raw EXCEPT !.mmap = <<[len |-> RawOpenSize(ro),
                                          foff |-> RawOpenFileOffset(ro)]>>]
        Fails(c, e) == /\ last' = [c EXCEPT !.res = "err", !.errno = e]
                       /\ UNCHANGED <<view, os, unmapped, nmaps, nresizes>>
        Panics(c) == /\ last' = [c EXCEPT !.res = "panic"]
                     /\ UNCHANGED <<view, os, unmapped, nmaps, nresizes>>
    IN  /\ file' = fs.file
        /\ IF ~fs.ok THEN Fails(call, fs.errno)
           ELSE IF ResolvePanics(o, variant, FileSize(fs.file)) THEN Panics(call)
           ELSE IF RawOpenPanics(ro) THEN Panics(raw)
           ELSE IF errno # "" THEN Fails(mapped, errno)
           ELSE \/ Fails(mapped, "ENOMEM")
                \/ LET a == LowestFree({}) IN
                     /\ os' = [os EXCEPT ![a] =
                                 [id |-> nmaps + 1, len |-> RawOpenSize(ro),
                                  foff |-> RawOpenFileOffset(ro),
                                  shared |-> get_mmap_flags(ro) = "MAP_SHARED",
                                  prot |-> get_mmap_protection(ro), cow |-> <<>>]]
                     /\ view' = [view EXCEPT ![v] =
                                   [st |-> "uninit", kind |-> o.kind,
                                    m |-> RawOpenResult(ro, a), cur_ix |-> 0,
                                    shared |-> variant \in SharedVariants]]
                     /\ unmapped' = Append(unmapped, 0)
                     /\ nmaps' = nmaps + 1
                     /\ last' = [mapped EXCEPT !.res = "ok"]

\* open(path), open_slice(path) and, with shared, open_shared(path),
\* open_shared_slice(path); the builder is a temporary that ends with the call
Open(v, shared) ==
    /\ proc = "running" /\ opts # NoOpts /\ Vacant(v)
    /\ LET o == IF shared THEN with_shared(opts, TRUE) ELSE opts
       IN  Resolve(v, o, IF shared THEN "shared_path" ELSE "path", FsOpen(o, file))
    /\ opts' = NoOpts
    /\ UNCHANGED <<overflow_checks, proc, nresizes>>
    /\ trip' = TripAfter
    /\ UNCHANGED written

\* open_from_file(f), open_slice_from_file(f) and their open_shared_* forms,
\* on a file the caller opened with access mode hmode
OpenFromFile(v, shared, hmode) ==
    /\ proc = "running" /\ opts # NoOpts /\ Vacant(v) /\ file # NoFile
    /\ LET o == IF shared THEN with_shared(opts, TRUE) ELSE opts
       IN  Resolve(v, o, IF shared THEN "shared_file" ELSE "file",
                   [ok |-> TRUE, errno |-> "", file |-> file, mode |-> hmode])
    /\ opts' = NoOpts
    /\ UNCHANGED <<overflow_checks, proc, nresizes>>
    /\ trip' = TripAfter
    /\ UNCHANGED written

\* open_from_fd(fd), open_slice_from_fd(fd) and their open_shared_* forms
OpenFromFd(v, shared, hmode) ==
    /\ proc = "running" /\ opts # NoOpts /\ Vacant(v) /\ file # NoFile
    /\ LET o == IF shared THEN with_shared(opts, TRUE) ELSE opts
       IN  Resolve(v, o, IF shared THEN "shared_fd" ELSE "fd",
                   [ok |-> TRUE, errno |-> "", file |-> file, mode |-> hmode])
    /\ opts' = NoOpts
    /\ UNCHANGED <<overflow_checks, proc, nresizes>>
    /\ trip' = TripAfter
    /\ UNCHANGED written

VariantName(how, shared) ==
    IF ~shared THEN how
    ELSE IF how = "path" THEN "shared_path"
    ELSE IF how = "file" THEN "shared_file" ELSE "shared_fd"

\* Any of the open functions called on a builder the caller keeps: they take
\* &self, so the builder is what it was when the call returns.  how: "path",
\* "file" or "fd"; hmode: the access mode of the file or descriptor handed in
OpenKept(v, shared, how, hmode) ==
    /\ proc = "running" /\ opts # NoOpts /\ view[v].st = "none" /\ nmaps < MaxHeld
    /\ \A w \in Views : w < v => view[w].st # "none"
    /\ how # "path" => file # NoFile
    /\ LET o == IF shared THEN with_shared(opts, TRUE) ELSE opts
           fs == IF how = "path" THEN FsOpen(o, file)
                 ELSE [ok |-> TRUE, errno |-> "", file |-> file, mode |-> hmode]
       IN  Resolve(v, o, VariantName(how, shared), fs)
    /\ UNCHANGED <<overflow_checks, proc, opts, nresizes>>
    /\ trip' = TripAfter
    /\ UNCHANGED written

\* options().read(true).write(true).offset(k).len(n)
\*     .open_shared_slice_from_file(&f), f open for reading and writing, as
\* test_shared_resize makes its mappings; the views are taken in order
OpenSharedSliceFromFile(v, k, n) ==
    /\ proc = "running" /\ opts = NoOpts /\ view[v].st = "none" /\ nmaps < MaxHeld
    /\ \A w \in Views : w < v => view[w].st # "none"
    /\ file # NoFile
    /\ LET o == [OptionsNew("slice") EXCEPT !.read = TRUE, !.write = TRUE,
                                            !.byte_offset = WrapMul(k, ElemSize),
                                            !.byte_len = WrapMul(n, ElemSize)]
       IN  Resolve(v, with_shared(o, TRUE), "shared_file",
                   [ok |-> TRUE, errno |-> "", file |-> file, mode |-> ReadWrite])
    /\ UNCHANGED <<overflow_checks, proc, opts, nresizes>>
    /\ trip' = TripAfter
    /\ UNCHANGED written

\* MemoryMapped::open(path) / open_slice(path): new().read(true), then open
MemoryMappedOpen(v, kind) ==
    /\ proc = "running" /\ opts = NoOpts /\ Vacant(v) /\ nmaps < MaxOpens
    /\ LET o == [OptionsNew(kind) EXCEPT !.read = TRUE]
       IN  Resolve(v, o, "path", FsOpen(o, file))
    /\ UNCHANGED <<overflow_checks, proc, opts, nresizes>>
    /\ trip' = TripAfter
    /\ UNCHANGED written

\* MemoryMapped::create(path) / create_slice(path):
\* new().read(true).write(true).create_new(true), then open
MemoryMappedCreate(v, kind) ==
    /\ proc = "running" /\ opts = NoOpts /\ Vacant(v) /\ nmaps < MaxOpens
    /\ LET o == [OptionsNew(kind) EXCEPT !.read = TRUE, !.write = TRUE, !.create_new = TRUE]
       IN  Resolve(v, o, "path", FsOpen(o, file))
    /\ UNCHANGED <<overflow_checks, proc, opts, nresizes>>
    /\ trip' = TripAfter
    /\ UNCHANGED written

\* ------------------------------------------------------- assume_init, drop

\* a conversion that builds the result from the logical region alone
assume_init_from_segment(w) ==
    [w EXCEPT !.st = "init", !.m.byte_offset = 0, !.m.byte_size = segment_byte_len(w.m)]

\* MemoryMapped<MaybeUninit<T>>::assume_init and the slice form: transmute(self)
assume_init(w) == [w EXCEPT !.st = "init"]

AssumeInit(v) ==
    /\ proc = "running" /\ view[v].st = "uninit"
    /\ view' = [view EXCEPT ![v] = assume_init(view[v])]
    /\ last' = [Call("assume_init", v) EXCEPT !.res = "ok"]
    /\ UNCHANGED <<overflow_checks, proc, file, opts, os, unmapped, nmaps, nresizes, trip, written>>

\* libc::munmap(addr, len): the region table afterwards.  The pages from addr
\* up to addr + len go; a shorter len leaves the region's tail mapped.
MunmapErrno(addr, len) == IF len = 0 THEN "EINVAL" ELSE ""
MunmapCovers(addr, len) == os[addr] # NoRegion /\ PageUp(len) >= PageUp(os[addr].len)
Munmap(addr, len) ==
    IF MunmapCovers(addr, len) THEN [os EXCEPT ![addr] = NoRegion] ELSE os

\* RawMemoryMapping::close: the munmap call it makes
close(m) == [addr |-> m.ptr, len |-> m.byte_size]

\* a drop after which the value could still be used
dropped_usable(w) == w

\* the view once drop has run: the value is gone, nothing can name it
dropped(w) == [NoView EXCEPT !.st = "dropped"]

\* Drop for MemoryMapped (and for the IntoIter that owns one)
Drop(v) ==
    /\ proc = "running" /\ Live(v)
    /\ LET c == close(view[v].m)
           r == os[c.addr]
       IN  /\ last' = [Call("drop", v) EXCEPT
                         !.res = IF MunmapErrno(c.addr, c.len) = "" THEN "ok" ELSE "panic",
                         !.errno = MunmapErrno(c.addr, c.len)]
           /\ os' = IF MunmapErrno(c.addr, c.len) = "" THEN Munmap(c.addr, c.len) ELSE os
           /\ unmapped' = IF MunmapErrno(c.addr, c.len) = "" /\ MunmapCovers(c.addr, c.len)
                            THEN [unmapped EXCEPT ![r.id] = @ + 1] ELSE unmapped
    /\ view' = [view EXCEPT ![v] = dropped(view[v])]
    /\ UNCHANGED <<overflow_checks, proc, file, opts, nmaps, nresizes>>
    /\ trip' = TripAfter
    /\ UNCHANGED written


\* --------------------------------------------------------- element access

\* a store of value x to every byte of element i through region r: into the
\* file for a shared region, into the region's private copy otherwise
StoredFile(r, m, i, x) ==
    IF r.shared
    THEN [j \in 1 .. Len(file) |->
            IF j - 1 \in (segment_pos(m) + i * ElemSize) .. (segment_pos(m) + (i + 1) * ElemSize - 1)
            THEN x ELSE file[j]]
    ELSE file
StoredCow(r, m, i, x) ==
    IF r.shared THEN r.cow
    ELSE LET at == (segment_pos(m) + i * ElemSize) .. (segment_pos(m) + (i + 1) * ElemSize - 1)
         IN  [j \in DOMAIN r.cow \cup at |-> IF j \in at THEN x ELSE r.cow[j]]

CanRead(m, i) == Accessible(m, i) /\ os[m.ptr].prot.read
CanWrite(m, i) == Accessible(m, i) /\ os[m.ptr].prot.write

\* `written` after the store of WriteElem(v, which): a store that succeeds
\* through a view made by open_shared is recorded at the file positions of its
\* element
WrittenAfter(v, which) ==
    LET m == view[v].m
        i == IF which = "first" THEN 0 ELSE SliceLen(m) - 1
        x == IF which = "first" THEN SentinelFirst ELSE SentinelLast
        at == (segment_pos(m) + i * ElemSize) .. (segment_pos(m) + (i + 1) * ElemSize - 1)
    IN  IF last'.res = "ok" /\ view[v].shared
        THEN [j \in DOMAIN written \cup at |-> IF j \in at THEN x ELSE written[j]]
        ELSE written

\* first_mut() / last_mut() of the slice and a store through it, as
\* test_shared_resize does; an empty slice has neither
WriteElem(v, which) ==
    /\ proc = "running" /\ view[v].st \in {"uninit", "init"} /\ view[v].kind = "slice"
    /\ LET m == view[v].m
           r == os[m.ptr]
           i == IF which = "first" THEN 0 ELSE SliceLen(m) - 1
           x == IF which = "first" THEN SentinelFirst ELSE SentinelLast
       IN  IF segment_byte_len_panics(m)
           THEN /\ last' = [Call(which, v) EXCEPT !.res = "panic"]
                /\ UNCHANGED <<proc, file, os>>
           ELSE IF SliceLen(m) = 0
           THEN /\ last' = [Call(which, v) EXCEPT !.res = "none"]
                /\ UNCHANGED <<proc, file, os>>
           ELSE IF ~CanWrite(m, i)
           THEN /\ proc' = "aborted"
                /\ last' = [Call(which, v) EXCEPT !.res = "fault"]
                /\ UNCHANGED <<file, os>>
           ELSE /\ file' = StoredFile(r, m, i, x)
                /\ os' = [os EXCEPT ![m.ptr].cow = StoredCow(r, m, i, x)]
                /\ last' = [Call(which, v) EXCEPT !.res = "ok"]
                /\ UNCHANGED proc
    /\ UNCHANGED <<overflow_checks, opts, view, unmapped, nmaps, nresizes>>
    /\ trip' = TripAfter
    /\ written' = WrittenAfter(v, which)

\* ------------------------------------------------------------------ resize

\* libc::mremap(addr, old, new, MREMAP_MAYMOVE): the errno it fails with for
\* certain, or "" when it can succeed (it may still fail with ENOMEM)
MremapErrno(addr, old, new) ==
    IF new = 0 THEN "EINVAL"
    ELSE IF os[addr] = NoRegion \/ PageUp(old) # PageUp(os[addr].len) THEN "EFAULT"
    ELSE IF new > AddrLimit THEN "ENOMEM"
    ELSE ""

\* the region table after a successful mremap of the region at addr to `new`
\* bytes at address `to`; pages cut off lose their private contents
Mremap(addr, new, to) ==
    LET r == os[addr]
        kept == {j \in DOMAIN r.cow : j < r.foff + PageUp(new)}
        r2 == [r EXCEPT !.len = new, !.cow = [j \in kept |-> r.cow[j]]]
    IN  [a \in Addrs |-> IF a = to THEN r2 ELSE IF a = addr THEN NoRegion ELSE os[a]]

\* where a successful mremap may leave the region: in place, or, when it grows
\* by whole pages, at another free address
MremapTargets(addr, old, new) ==
    {addr} \cup (IF PageUp(new) > PageUp(old) /\ FreeAddrs # {} THEN {LowestFree({})} ELSE {})

\* a byte_resize that keeps the pointer it had
byte_resize_keeps_ptr(m, new_byte_size, new_ptr) == [m EXCEPT !.byte_size = new_byte_size]

\* a byte_resize that records the new size before it looks at mremap's result
byte_resize_failed_resized(m, new_byte_size) == [m EXCEPT !.byte_size = new_byte_size]

\* RawMemoryMapping::byte_resize after a successful mremap that returned new_ptr
byte_resize(m, new_byte_size, new_ptr) ==
    [m EXCEPT !.ptr = new_ptr, !.byte_size = new_byte_size]

\* RawMemoryMapping::byte_resize after a failed mremap: the early return
byte_resize_failed(m, new_byte_size) == m

\* resize_uninit: the byte size it asks byte_resize for
resize_uninit_size(new_len) == WrapMul(new_len, ElemSize)
resize_uninit_panics(new_len) == overflow_checks /\ MulOverflows(new_len, ElemSize)

\* the caller's obligation of the unsafe resize functions: when the slice grows,
\* the file already holds the new_len elements from the segment's start
FileSupports(m, new_len) ==
    \/ new_len * ElemSize <= segment_byte_len(m)
    \/ /\ file # NoFile
       /\ segment_pos(m) + new_len * ElemSize <= Len(file)

\* the values fill_with stores: element old_len + k gets the k-th value
GenValue(gen, k) == IF gen = "fill" THEN FillValue ELSE GenBase + k

\* fill_with over elements from..to-1 of the resized mapping m2 in region
\* table os2: the file and the region afterwards
RECURSIVE FillFile(_, _, _, _, _, _, _)
FillFile(f, r, m2, from, to, gen, k) ==
    IF from >= to THEN f
    ELSE FillFile(
           IF r.shared
           THEN [j \in 1 .. Len(f) |->
                   IF j - 1 \in (r.foff + m2.byte_offset + from * ElemSize) ..
                                (r.foff + m2.byte_offset + (from + 1) * ElemSize - 1)
                   THEN GenValue(gen, k) ELSE f[j]]
           ELSE f,
           r, m2, from + 1, to, gen, k + 1)
RECURSIVE FillCow(_, _, _, _, _, _)
FillCow(r, m2, from, to, gen, k) ==
    IF from >= to \/ r.shared THEN r.cow
    ELSE LET at == (r.foff + m2.byte_offset + from * ElemSize) ..
                   (r.foff + m2.byte_offset + (from + 1) * ElemSize - 1)
             c == FillCow(r, m2, from + 1, to, gen, k + 1)
         IN  [j \in DOMAIN c \cup at |-> IF j \in at /\ j \notin DOMAIN c THEN GenValue(gen, k)
                                         ELSE IF j \in at THEN GenValue(gen, k) ELSE c[j]]

\* the record of a resize call; shrink_to keeps what the resize_with before it left
ResizeCall(op, v, new_len) ==
    [Call(op, v) EXCEPT !.arg = new_len,
                        !.grow = IF op = "shrink_to" /\ last.op = "resize_with" /\ last.v = v
                                 THEN last.grow ELSE NoGrow]

\* The resize family on view v.  `op` is the function called; `fill` says
\* whether it fills the new elements ("no", "gen" for resize_with, "fill" for
\* resize).  Covers resize_uninit, byte_resize and the mremap call, then the
\* fill of resize_with.
ResizeBody(op, v, new_len, fill) ==
    LET m == view[v].m
        call == ResizeCall(op, v, new_len)
        size == resize_uninit_size(new_len)
        errno == MremapErrno(m.ptr, m.byte_size, size)
        old_len == SliceLen(m)
        Panics == /\ last' = [call EXCEPT !.res = "panic"]
                  /\ UNCHANGED <<proc, file, view, os>>
        Fails(e) == /\ last' = [call EXCEPT !.res = "err", !.errno = e]
                    /\ view' = [view EXCEPT ![v].m = byte_resize_failed(m, size)]
                    /\ UNCHANGED <<proc, file, os>>
    IN  IF fill # "no" /\ segment_byte_len_panics(m) THEN Panics
        ELSE IF resize_uninit_panics(new_len) THEN Panics
        ELSE IF errno # "" THEN Fails(errno)
        ELSE \/ Fails("ENOMEM")
             \/ \E to \in MremapTargets(m.ptr, m.byte_size, size) :
                  LET m2 == byte_resize(m, size, to)
                      os2 == Mremap(m.ptr, size, to)
                      new_actual == SliceLen(m2)
                  IN  /\ view' = [view EXCEPT ![v].m = m2]
                      /\ IF fill = "no" \/ new_len <= old_len
                         THEN /\ os' = os2
                              /\ last' = [call EXCEPT !.res = "ok"]
                              /\ UNCHANGED <<proc, file>>
                         ELSE IF (overflow_checks /\ SubOverflows(m2.byte_size, m2.byte_offset))
                                 \/ old_len > new_actual
                         \* as_slice_mut()[old_len..] panics: the length underflows
                         \* or the range starts past the end
                         THEN /\ os' = os2
                              /\ last' = [call EXCEPT !.res = "panic"]
                              /\ UNCHANGED <<proc, file>>
                         ELSE IF \E i \in old_len .. (new_actual - 1) :
                                   ~(/\ m2.byte_offset + (i + 1) * ElemSize <= PageUp(size)
                                     /\ os2[to].foff + m2.byte_offset + (i + 1) * ElemSize <= Len(file)
                                     /\ os2[to].prot.write)
                         THEN /\ os' = os2
                              /\ proc' = "aborted"
                              /\ last' = [call EXCEPT !.res = "fault"]
                              /\ UNCHANGED file
                         ELSE /\ file' = FillFile(file, os2[to], m2, old_len, new_actual, fill, 0)
                              /\ os' = [os2 EXCEPT ![to].cow =
                                          FillCow(os2[to], m2, old_len, new_actual, fill, 0)]
                              /\ last' = [call EXCEPT
                                            !.res = "ok", !.calls = new_actual - old_len,
                                            !.grow = IF fill = "gen" /\ old_len >= 1
                                                        /\ new_len = 2 * old_len
                                                     THEN [n |-> old_len, old |-> Elems(m)]
                                                     ELSE NoGrow]
                              /\ UNCHANGED proc

\* `written` after a resize call on view v: the bytes its fill stored, in
\* the file or in the private copy of the view's region
WrittenByFill(v) ==
    LET r == os[view[v].m.ptr]
        r2 == os'[view'[v].m.ptr]
        at == {j \in 0 .. (Len(file) - 1) : file'[j + 1] # file[j + 1]}
        cow == {j \in DOMAIN r2.cow : j \notin DOMAIN r.cow \/ r2.cow[j] # r.cow[j]}
    IN  IF view[v].shared /\ last'.res = "ok" /\ last'.calls > 0
        THEN [j \in DOMAIN written \cup at \cup cow |->
                IF j \in at THEN file'[j + 1] ELSE IF j \in cow THEN r2.cow[j] ELSE written[j]]
        ELSE written

IsSlice(v, st) == view[v].st = st /\ view[v].kind = "slice"

\* MemoryMapped<[MaybeUninit<T>]>::resize_uninit(new_len)
ResizeUninit(v, new_len) ==
    /\ proc = "running" /\ nresizes < MaxResizes /\ IsSlice(v, "uninit") /\ FileSupports(view[v].m, new_len)
    /\ ResizeBody("resize_uninit", v, new_len, "no")
    /\ nresizes' = nresizes + 1
    /\ UNCHANGED <<overflow_checks, opts, unmapped, nmaps>>
    /\ trip' = NoTrip
    /\ written' = WrittenByFill(v)

\* MemoryMapped<[T]>::resize_assume_init(new_len)
ResizeAssumeInit(v, new_len) ==
    /\ proc = "running" /\ nresizes < MaxResizes /\ IsSlice(v, "init") /\ FileSupports(view[v].m, new_len)
    /\ ResizeBody("resize_assume_init", v, new_len, "no")
    /\ nresizes' = nresizes + 1
    /\ UNCHANGED <<overflow_checks, opts, unmapped, nmaps>>
    /\ trip' = NoTrip
    /\ written' = WrittenByFill(v)

\* MemoryMapped<[T]>::resize_with(new_len, f), f returning GenBase, GenBase + 1, ...
ResizeWith(v, new_len) ==
    /\ proc = "running" /\ nresizes < MaxResizes /\ IsSlice(v, "init") /\ FileSupports(view[v].m, new_len)
    /\ ResizeBody("resize_with", v, new_len, "gen")
    /\ nresizes' = nresizes + 1
    /\ UNCHANGED <<overflow_checks, opts, unmapped, nmaps>>
    /\ trip' = NoTrip
    /\ written' = WrittenByFill(v)

\* MemoryMapped<[T]>::resize(new_len, FillValue)
Resize(v, new_len) ==
    /\ proc = "running" /\ nresizes < MaxResizes /\ IsSlice(v, "init") /\ FileSupports(view[v].m, new_len)
    /\ ResizeBody("resize", v, new_len, "fill")
    /\ nresizes' = nresizes + 1
    /\ UNCHANGED <<overflow_checks, opts, unmapped, nmaps>>
    /\ trip' = NoTrip
    /\ written' = WrittenByFill(v)

\* MemoryMapped<[T]>::shrink_to(new_len): assert!(self.len() > new_len), then
\* resize_assume_init
ShrinkTo(v, new_len) ==
    /\ proc = "running" /\ nresizes < MaxResizes /\ IsSlice(v, "init")
    /\ IF segment_byte_len_panics(view[v].m) \/ ~(SliceLen(view[v].m) > new_len)
       THEN /\ last' = [ResizeCall("shrink_to", v, new_len) EXCEPT !.res = "panic"]
            /\ UNCHANGED <<proc, file, view, os>>
       ELSE /\ ResizeBody("shrink_to", v, new_len, "no")
    /\ nresizes' = nresizes + 1
    /\ UNCHANGED <<overflow_checks, opts, unmapped, nmaps>>
    /\ trip' = NoTrip
    /\ written' = WrittenByFill(v)

\* ---------------------------------------------------------------- iterator

\* IntoIterator for MemoryMapped<[T]>::into_iter
IntoIter(v) ==
    /\ proc = "running" /\ IsSlice(v, "init")
    /\ view' = [view EXCEPT ![v].st = "iter", ![v].cur_ix = 0]
    /\ last' = [Call("into_iter", v) EXCEPT !.res = "ok"]
    /\ UNCHANGED <<overflow_checks, proc, file, opts, os, unmapped, nmaps, nresizes, trip, written>>

\* a next that forgets to advance
next_ix_stuck(ix) == ix

\* self.cur_ix += 1
next_ix(ix) == ix + 1

\* IntoIter::next
IterNext(v) ==
    /\ proc = "running" /\ IsSlice(v, "iter")
    /\ LET m == view[v].m
           ix == view[v].cur_ix
       IN  IF segment_byte_len_panics(m)
           THEN /\ last' = [Call("next", v) EXCEPT !.res = "panic"]
                /\ UNCHANGED <<proc, view>>
           ELSE IF ix < SliceLen(m)
           THEN IF CanRead(m, ix)
                THEN /\ view' = [view EXCEPT ![v].cur_ix = next_ix(ix)]
                     /\ last' = [Call("next", v) EXCEPT !.res = "some", !.arg = ix,
                                                        !.item = Elem(m, ix)]
                     /\ UNCHANGED proc
                ELSE /\ view' = [view EXCEPT ![v].cur_ix = next_ix(ix)]
                     /\ proc' = "aborted"
                     /\ last' = [Call("next", v) EXCEPT !.res = "fault"]
           ELSE /\ last' = [Call("next", v) EXCEPT !.res = "none"]
                /\ UNCHANGED <<proc, view>>
    /\ UNCHANGED <<overflow_checks, file, opts, os, unmapped, nmaps, nresizes, trip, written>>

\* --------------------------------------------------------------------- Spec

MainViews == {1}
Kinds == {"scalar", "slice"}
\* the start of the file, an offset whose padding is smaller than an element,
\* and one whose padding is larger than an element and no multiple of its size
SliceOffsets == {0, 1, PageSize - 1}
\* an aligned and an unaligned start of the range that is opened again
ReopenOffsets == {0, PageSize - 1}

\* the request in the builder asks for a readable mapping
Readable == opts # NoOpts /\ opts.read

\* the operations on a mapping once it is open
Use(v) ==
    \/ AssumeInit(v)
    \/ \E which \in {"first", "last"} : WriteElem(v, which)
    \/ \E n \in 0 .. MaxLen : ResizeUninit(v, n)
    \/ \E n \in 0 .. MaxLen : ResizeAssumeInit(v, n)
    \/ \E n \in 0 .. MaxLen : ResizeWith(v, n)
    \/ \E n \in 0 .. MaxLen : Resize(v, n)
    \/ \E n \in 0 .. MaxLen : ShrinkTo(v, n)
    \/ IntoIter(v)
    \/ IterNext(v)
    \/ Drop(v)

\* One slice mapping of an existing file, requested readable (and possibly
\* writable) over whole elements and resolved by path or from a file opened
\* for reading and writing; every operation of the view
Next ==
    \/ nmaps = 0 /\ Options("slice")
    \/ \E field \in {"read", "write"} : SetFlag(field, TRUE)
    \/ \E n \in SliceOffsets : SetByteOffset(n)
    \/ \E n \in 0 .. MaxLen : SetLen(n)
    \/ \E v \in MainViews, shared \in BOOLEAN : Readable /\ Open(v, shared)
    \/ \E v \in MainViews, shared \in BOOLEAN : Readable /\ OpenFromFile(v, shared, ReadWrite)
    \/ \E v \in MainViews : Use(v)

InitMapped == Init /\ file = InitFile

Spec == InitMapped /\ [][Next]_vars

\* Every request the builder can express, scalar or slice, resolved every
\* way, for the first mapping of the process; the mapping is then only
\* converted and dropped
NextOpen ==
    \/ \E kind \in Kinds : nmaps = 0 /\ Options(kind)
    \/ \E field \in {"read", "write", "create", "create_new"}, b \in BOOLEAN : SetFlag(field, b)
    \/ \E n \in ByteOffsets : SetByteOffset(n)
    \/ \E n \in ByteLens : SetByteLen(n)
    \/ \E k \in 0 .. MaxLen : SetOffset(k)
    \/ \E n \in 0 .. MaxLen : SetLen(n)
    \/ \E v \in MainViews, shared \in BOOLEAN : Open(v, shared)
    \/ \E v \in MainViews, shared \in BOOLEAN, hmode \in HandleModes : OpenFromFile(v, shared, hmode)
    \/ \E v \in MainViews, shared \in BOOLEAN, hmode \in HandleModes : OpenFromFd(v, shared, hmode)
    \/ \E v \in MainViews, kind \in Kinds : MemoryMappedOpen(v, kind)
    \/ \E v \in MainViews, kind \in Kinds : MemoryMappedCreate(v, kind)
    \/ \E v \in MainViews : AssumeInit(v)
    \/ \E v \in MainViews : Drop(v)

SpecOpen == Init /\ [][NextOpen]_vars

\* Slice mappings of an existing file, one after the other over the same or
\* another range: opened, written through, iterated and dropped, never resized
NextReopen ==
    \/ Options("slice")
    \/ \E field \in {"read", "write"} : SetFlag(field, TRUE)
    \/ \E n \in ReopenOffsets : SetByteOffset(n)
    \/ \E n \in 0 .. MaxLen : SetLen(n)
    \/ \E v \in MainViews, shared \in BOOLEAN : Readable /\ Open(v, shared)
    \/ \E v \in MainViews, shared \in BOOLEAN : Readable /\ OpenFromFile(v, shared, ReadWrite)
    \/ \E v \in MainViews, kind \in {"slice"} : MemoryMappedOpen(v, kind)
    \/ \E v \in MainViews : AssumeInit(v)
    \/ \E v \in MainViews, which \in {"first", "last"} : WriteElem(v, which)
    \/ \E v \in MainViews : IntoIter(v)
    \/ \E v \in MainViews : IterNext(v)
    \/ \E v \in MainViews : Drop(v)

SpecReopen == InitMapped /\ [][NextReopen]_vars

\* One builder, set up and then kept and used for several opens by every
\* open function, shared or not, next to MemoryMapped::open and create with
\* builders of their own
NextBuilder ==
    \/ \E kind \in Kinds : nmaps = 0 /\ Options(kind)
    \/ \E field \in {"read", "write"}, b \in BOOLEAN : nmaps = 0 /\ SetFlag(field, b)
    \/ \E n \in {0, 1} : nmaps = 0 /\ SetByteOffset(n)
    \/ \E n \in {0, ElemSize} : nmaps = 0 /\ SetByteLen(n)
    \/ \E v \in Views, shared \in BOOLEAN, hmode \in HandleModes :
         OpenKept(v, shared, "path", hmode) /\ hmode = ReadWrite
    \/ \E v \in Views, shared \in BOOLEAN, how \in {"file", "fd"}, hmode \in HandleModes :
         OpenKept(v, shared, how, hmode)
    \/ \E v \in MainViews, kind \in Kinds : MemoryMappedOpen(v, kind)
    \/ \E v \in MainViews, kind \in Kinds : MemoryMappedCreate(v, kind)
    \/ \E v \in Views : Drop(v)

SpecBuilder == Init /\ [][NextBuilder]_vars

\* One readable slice mapping of an existing file, written through, turned
\* into its iterator and iterated; a caller that has the iterator goes on
\* calling next
NextIter ==
    \/ nmaps = 0 /\ Options("slice")
    \/ \E field \in {"read", "write"} : SetFlag(field, TRUE)
    \/ \E n \in ReopenOffsets : SetByteOffset(n)
    \/ \E n \in 0 .. MaxLen : SetLen(n)
    \/ \E v \in MainViews, shared \in BOOLEAN : Readable /\ Open(v, shared)
    \/ \E v \in MainViews : AssumeInit(v)
    \/ \E v \in MainViews, which \in {"first", "last"} : WriteElem(v, which)
    \/ \E v \in MainViews : IntoIter(v)
    \/ \E v \in MainViews : IterNext(v)
    \/ \E v \in MainViews : Drop(v)

SpecIter == InitMapped /\ [][NextIter]_vars /\ \A v \in MainViews : WF_vars(IterNext(v))

\* element offsets and lengths of mappings held together: two neighbours of
\* one element and the range of both
HeldOffsets == {0, 1}
HeldLens == {1, 2}

\* Up to MaxHeld slice mappings of one file held at the same time, each made
\* by open_shared_slice_from_file over a range of whole elements; stores
\* through them in any order
NextShared ==
    \/ \E v \in Views, k \in HeldOffsets, n \in HeldLens : OpenSharedSliceFromFile(v, k, n)
    \/ \E v \in Views, which \in {"first", "last"} : WriteElem(v, which)
    \/ \E v \in Views : Drop(v)

SpecShared == InitMapped /\ [][NextShared]_vars

\* ------------------------------------------------------------------- claims

GrowOps == {"resize_uninit", "resize_assume_init", "resize_with", "resize"}
ResizeOps == GrowOps \cup {"shrink_to"}

\* the step is a call of the resize family
ResizeStep == nresizes' = nresizes + 1

LenOf(v) == SliceLen(view[v].m)
ElemsOf(v) == Elems(view[v].m)
MappingOf(v) == view[v].m
RegionOf(v) == os[view[v].m.ptr]

\* C1: after a successful resize_uninit, resize_assume_init, resize_with or
\* resize to new_len the view has exactly new_len elements, its logical byte
\* length is new_len * element size, and the mapped size is the logical
\* length plus the padding.
C1_ResizeGivesNewLen ==
    (last.op \in GrowOps /\ last.res = "ok") =>
        /\ LenOf(last.v) = last.arg
        /\ segment_byte_len(MappingOf(last.v)) = last.arg * ElemSize
        /\ MappingOf(last.v).byte_size =
             segment_byte_len(MappingOf(last.v)) + MappingOf(last.v).byte_offset

\* C2: a successful resize from old_len to new_len leaves every element at an
\* index below min(old_len, new_len) in the view, with the value it had.
C2_ResizeKeepsPrefix ==
    [][\A v \in Views :
         (ResizeStep /\ last'.v = v /\ last'.res = "ok") =>
             \A i \in 1 .. Min(Len(ElemsOf(v)), last'.arg) :
                 /\ i <= LenOf(v)'
                 /\ i <= Len(ElemsOf(v)')
                 /\ ElemsOf(v)'[i] = ElemsOf(v)[i]]_vars

\* C3: after resize_with has grown a view from N >= 1 to 2N elements,
\* shrink_to(N) leaves exactly N elements, those the view had before it grew.
C3_GrowThenShrink ==
    (/\ last.op = "shrink_to" /\ last.res \in {"ok", "panic"}
     /\ last.grow # NoGrow /\ last.arg = last.grow.n) =>
        /\ last.res = "ok"
        /\ LenOf(last.v) = last.grow.n
        /\ ElemsOf(last.v) = last.grow.old

\* C4: on a view of n >= 1 elements shrink_to(n) is rejected and resizes
\* nothing, and shrink_to(n - 1) succeeds (unless the kernel is out of memory)
\* and leaves n - 1 elements.
C4_ShrinkTo ==
    [][\A v \in Views :
         (/\ ResizeStep /\ last'.op = "shrink_to" /\ last'.v = v
          /\ ~segment_byte_len_panics(MappingOf(v)) /\ LenOf(v) >= 1) =>
             /\ last'.arg = LenOf(v) =>
                  last'.res = "panic" /\ view' = view /\ os' = os
             /\ (last'.arg = LenOf(v) - 1 /\ last'.errno # "ENOMEM") =>
                  last'.res = "ok" /\ LenOf(v)' = LenOf(v) - 1]_vars

\* C5: a successful resolution of a request with byte_len = L > 0 gives a
\* view whose segment_byte_len is L, whatever the byte_offset.
C5_ExplicitLen ==
    (last.op = "open" /\ last.res = "ok" /\ last.arg > 0) =>
        segment_byte_len(MappingOf(last.v)) = last.arg

C5_Witness ==
    /\ last.op = "open" /\ last.res = "ok" /\ last.arg > 0
    /\ last.off % PageSize # 0
    /\ MappingOf(last.v).byte_offset > 0

\* C6: a successful resolution of a request with byte_len = 0 gives a view
\* whose logical length is the file's size minus byte_offset, for every
\* resolution variant.
C6_InferredLen ==
    (last.op = "open" /\ last.res = "ok" /\ last.arg = 0) =>
        segment_byte_len(MappingOf(last.v)) = FileSize(file) - last.off

\* C7: opened at a byte_offset that is no multiple of the page size, byte i
\* of the logical region is byte byte_offset + i of the file.
C7_LogicalRegionIsFileRange ==
    (last.op = "open" /\ last.res = "ok" /\ last.off % PageSize # 0) =>
        \A i \in 0 .. (segment_byte_len(MappingOf(last.v)) - 1) :
            last.off + i < FileSize(file) =>
                ReadByte(RegionOf(last.v), segment_pos(MappingOf(last.v)) + i)
                    = file[last.off + i + 1]

C7_Witness ==
    /\ last.op = "open" /\ last.res = "ok" /\ last.off % PageSize # 0
    /\ segment_byte_len(MappingOf(last.v)) >= ElemSize
    /\ last.off + segment_byte_len(MappingOf(last.v)) <= FileSize(file)

\* C8: every mapping the kernel created is unmapped at most once; until then
\* exactly one live view tracks it, by its current base address and with its
\* whole current size, so the munmap of that view's drop releases all of it;
\* once its view is dropped it has been unmapped exactly once; and an open
\* that fails leaves every mapping created so far unmapped exactly once.
C8_UnmappedOnce ==
    /\ \A id \in 1 .. nmaps :
         /\ unmapped[id] <= 1
         /\ unmapped[id] = 0 =>
              /\ Cardinality({v \in Views : Live(v) /\ RegionOf(v).id = id}) = 1
              /\ \A v \in Views :
                   (Live(v) /\ RegionOf(v).id = id) =>
                       RegionOf(v).len = MappingOf(v).byte_size
         /\ unmapped[id] = 1 => \A a \in Addrs : os[a].id # id
    /\ \A v \in Views : Live(v) => RegionOf(v) # NoRegion
    /\ (last.op = "drop" /\ proc = "running") =>
         last.res = "ok" /\ \A id \in 1 .. nmaps : unmapped[id] = 1
    /\ (last.op = "open" /\ last.res # "ok") =>
         \A id \in 1 .. nmaps : unmapped[id] = 1

C8_Witness ==
    /\ last.op = "drop" /\ last.res = "ok"
    /\ nresizes > 0 /\ nmaps = 1 /\ unmapped[1] = 1

\* C9: a resize call that fails in mremap returns the error with mremap's
\* errno and leaves the view's pointer, size and padding, the kernel's
\* regions and the file as they were.
C9_FailedResizeChangesNothing ==
    [][\A v \in Views :
         (ResizeStep /\ last'.v = v /\ last'.res = "err") =>
             /\ last'.errno \in {"EINVAL", "ENOMEM"}
             /\ MremapErrno(MappingOf(v).ptr, MappingOf(v).byte_size,
                            resize_uninit_size(last'.arg)) \in {"", last'.errno}
             /\ view' = view /\ os' = os /\ file' = file]_vars

C9_Witness ==
    /\ last.op \in ResizeOps /\ last.res = "err" /\ last.errno = "ENOMEM"
    /\ Live(last.v) /\ LenOf(last.v) >= 1

\* C10 as stated: sentinels written to the first and last element of any
\* slice mapping are read back from a mapping reopened over the same range.
C10_RoundTripAnyMapping ==
    (last.op = "open" /\ last.res = "ok" /\ trip.phase = "reopened"
     /\ Cardinality(DOMAIN trip.want) = IF trip.len >= 2 THEN 2 ELSE 1) =>
        \A i \in DOMAIN trip.want :
            Elem(MappingOf(last.v), i) = [k \in 1 .. ElemSize |-> trip.want[i]]

\* C10 amended: sentinels written to the first and last element of a slice
\* mapping opened shared (open_shared_slice*) are read back from a mapping
\* reopened over the same range.
C10_RoundTripShared ==
    (last.op = "open" /\ last.res = "ok" /\ trip.phase = "reopened" /\ trip.shared
     /\ Cardinality(DOMAIN trip.want) = IF trip.len >= 2 THEN 2 ELSE 1) =>
        \A i \in DOMAIN trip.want :
            Elem(MappingOf(last.v), i) = [k \in 1 .. ElemSize |-> trip.want[i]]

C10_Witness ==
    /\ last.op = "open" /\ last.res = "ok" /\ trip.phase = "reopened" /\ trip.shared
    /\ trip.len >= 2 /\ Cardinality(DOMAIN trip.want) = 2
    /\ trip.pos % PageSize # 0

\* the file positions of the logical region of view v
RangeOf(v) ==
    segment_pos(MappingOf(v)) .. (segment_pos(MappingOf(v)) + segment_byte_len(MappingOf(v)) - 1)

\* the step is a successful store through view v
StoreStep(v) == last'.op \in {"first", "last"} /\ last'.v = v /\ last'.res = "ok"

\* every live view made by open_shared reads, at each position of its range
\* that was stored to through such a view, the byte stored there last
SharedStoresVisible ==
    \A u \in Views :
        (Live(u) /\ view[u].shared) =>
            \A p \in RangeOf(u) \cap DOMAIN written : ReadByte(RegionOf(u), p) = written[p]

\* C11: with mappings opened in shared mode, a store through one changes no
\* element of another whose byte range is disjoint from its own, whatever the
\* order of the stores, and every mapping, in particular one opened later
\* over both ranges, reads each store made through any of them.
C11_SharedDisjointStores ==
    [][/\ \A v, w \in Views :
            (/\ StoreStep(v) /\ w # v /\ Live(w) /\ view[v].shared /\ view[w].shared
             /\ RangeOf(v) \cap RangeOf(w) = {}) =>
                ElemsOf(w)' = ElemsOf(w)
       /\ SharedStoresVisible']_vars

C11_Witness ==
    /\ last.op = "open" /\ last.res = "ok" /\ nmaps = 3
    /\ \E a, b \in Views \ {last.v} :
         /\ a # b /\ Live(a) /\ Live(b) /\ view[a].shared /\ view[b].shared
         /\ RangeOf(a) \cap RangeOf(b) = {}
         /\ RangeOf(last.v) = RangeOf(a) \cup RangeOf(b)
         /\ RangeOf(a) \cap DOMAIN written # {}
         /\ RangeOf(b) \cap DOMAIN written # {}
         /\ \A i \in 1 .. LenOf(last.v) :
              ElemsOf(last.v)[i][1] \in {SentinelFirst, SentinelLast}

\* C12: a mapping is shared exactly when an open_shared function made it:
\* open, open_from_file, open_from_fd, their slice forms and
\* MemoryMapped::open / create give private mappings from every builder
\* state, and the builder an open_shared function was called on is not
\* shared afterwards.
C12_SharedOnlyByOpenShared ==
    /\ (last.op = "open" /\ last.res = "ok") =>
         RegionOf(last.v).shared = (last.variant \in SharedVariants)
    /\ \A v \in Views : Live(v) => RegionOf(v).shared = view[v].shared
    /\ opts # NoOpts => ~opts.shared

C12_Witness ==
    /\ last.op = "open" /\ last.res = "ok" /\ last.variant \notin SharedVariants
    /\ opts # NoOpts /\ ~RegionOf(last.v).shared
    /\ \E w \in Views \ {last.v} :
         Live(w) /\ view[w].shared /\ RegionOf(w).shared /\ RegionOf(w).id < RegionOf(last.v).id

\* C13: a successful resize_with(new_len, f) on a view of old_len elements
\* calls f new_len - old_len times when it grows and never otherwise, and
\* the element at index old_len + k holds the value of the k-th call.
C13_GeneratorCalls ==
    [][\A v \in Views :
         (ResizeStep /\ last'.op = "resize_with" /\ last'.v = v /\ last'.res = "ok") =>
             /\ last'.calls = IF last'.arg > LenOf(v) THEN last'.arg - LenOf(v) ELSE 0
             /\ \A k \in 0 .. (last'.arg - LenOf(v) - 1) :
                  /\ LenOf(v) + k < Len(ElemsOf(v)')
                  /\ ElemsOf(v)'[LenOf(v) + k + 1] = [j \in 1 .. ElemSize |-> GenValue("gen", k)]]_vars

\* C14: MemoryMapped::create and create_slice leave the file existing; on a
\* file that exists already they truncate it and succeed (unless the kernel
\* is out of memory).
C14_CreateTruncates ==
    [][\A v \in MainViews, kind \in Kinds :
         MemoryMappedCreate(v, kind) =>
             /\ file' # NoFile
             /\ (file # NoFile /\ last'.errno # "ENOMEM") =>
                  (last'.res = "ok" /\ file' = <<>>)]_vars

\* the iterator of view v has its mapping, not yet unmapped, and an index
\* within the slice
IteratorHoldsMapping(v) ==
    view[v].st = "iter" =>
        /\ RegionOf(v) # NoRegion
        /\ unmapped[RegionOf(v).id] = 0
        /\ view[v].cur_ix <= LenOf(v)

\* C15: the iterator of a view of n elements returns a copy of element i at
\* its i-th call, for i = 0 .. n-1 in this order, and None at every call
\* after that; no call of next unmaps or changes the mapping, which stays
\* mapped while the iterator lives; and a caller that keeps calling next
\* gets None after finitely many calls.
C15_IteratorYieldsAll ==
    /\ [][\A v \in Views :
            /\ (last'.op = "next" /\ last'.v = v) =>
                 /\ IF view[v].cur_ix < LenOf(v)
                    THEN /\ last'.res = "some"
                         /\ last'.arg = view[v].cur_ix
                         /\ last'.item = ElemsOf(v)[view[v].cur_ix + 1]
                         /\ view'[v].cur_ix = view[v].cur_ix + 1
                    ELSE /\ last'.res = "none"
                         /\ view'[v].cur_ix = view[v].cur_ix
                 /\ view'[v].st = "iter" /\ view'[v].m = view[v].m
                 /\ os' = os /\ unmapped' = unmapped /\ file' = file
            /\ IteratorHoldsMapping(v)']_vars
    /\ \A v \in MainViews :
         (view[v].st = "iter") ~>
             (view[v].st = "dropped" \/ (last.op = "next" /\ last.v = v /\ last.res = "none"))

C15_Witness ==
    /\ last.op = "next" /\ last.res = "none" /\ view[last.v].st = "iter"
    /\ LenOf(last.v) >= 2 /\ view[last.v].cur_ix = LenOf(last.v)
    /\ SentinelLast \in DOMAIN [x \in {written[p] : p \in DOMAIN written} |-> x]

\* the logical byte length of view v is a whole number of elements
WholeElements(v) == segment_byte_len(MappingOf(v)) % ElemSize = 0

\* C16: a successful resize of a slice view whose logical byte length is a
\* multiple of the element size leaves a logical byte length that is a
\* multiple of the element size, at every byte_offset the view was opened at.
C16_ByteLenStaysWhole ==
    [][\A v \in Views :
         (/\ ResizeStep /\ last'.v = v /\ last'.res = "ok"
          /\ ~segment_byte_len_panics(MappingOf(v)) /\ WholeElements(v)) =>
             /\ ~segment_byte_len_panics(MappingOf(v))'
             /\ WholeElements(v)']_vars

\* C17: for every request (byte_offset, byte_len) that RawMemoryMapping::open
\* receives it issues exactly one mmap call, at the file offset
\* byte_offset - (byte_offset mod page size), a multiple of the page size, and
\* of length byte_len + (byte_offset mod page size); the mapping it returns
\* has byte_offset mod page size as its padding and byte_len + padding as its
\* total size.
C17_OneMmapOfPaddedRange ==
    (last.op = "open" /\ last.req # <<>>) =>
        LET q == last.req[1]
            padding == q.byte_offset % PageSize
        IN  /\ Len(last.mmap) = 1
            /\ last.mmap[1].foff = q.byte_offset - padding
            /\ last.mmap[1].foff % PageSize = 0
            /\ last.mmap[1].len = q.byte_len + padding
            /\ last.res = "ok" =>
                 /\ MappingOf(last.v).byte_offset = padding
                 /\ MappingOf(last.v).byte_size = q.byte_len + padding
                 /\ RegionOf(last.v).foff = q.byte_offset - padding
                 /\ RegionOf(last.v).len = q.byte_len + padding

\* the operations that need the view's mapping to be mapped
MapOps == ResizeOps \cup {"assume_init", "first", "last", "into_iter", "next", "drop"}

\* view v has a mapping that is mapped and was never unmapped
HasMapping(v) ==
    /\ Live(v)
    /\ view[v].m.ptr \in Addrs
    /\ RegionOf(v) # NoRegion
    /\ unmapped[RegionOf(v).id] = 0

\* C18: once a mapping is unmapped nothing is done with it: every element
\* access, conversion, resize, iteration step and drop is made on a view
\* whose mapping is mapped and was never unmapped, no mapping is unmapped
\* twice, and no view keeps a mapping that was unmapped.
C18_ClosedIsTerminal ==
    [][/\ last'.op \in MapOps => HasMapping(last'.v)
       /\ last'.op = "drop" => view'[last'.v].st = "dropped"
       /\ \A v \in Views : Live(v)' => HasMapping(v)'
       /\ \A id \in DOMAIN unmapped' : unmapped'[id] <= 1]_vars

C18_Witness ==
    /\ last.op = "drop" /\ last.res = "ok" /\ view[last.v].st = "dropped"
    /\ nmaps = 1 /\ unmapped[1] = 1 /\ nresizes >= 1
    /\ \A a \in Addrs : os[a] = NoRegion

\* the live views that hold the mapping at address a
OwnersOf(a) == {w \in Views : Live(w) /\ view[w].m.ptr = a}

\* C19: assume_init, on a scalar and on a slice view, gives an initialized
\* view of the same kind with the same base pointer, mapped size and padding;
\* it makes no mmap, mremap or munmap call, so the kernel's regions and the
\* file are as before; nothing is unmapped, and the mapping is still mapped
\* and held by the returned view alone.
C19_AssumeInitKeepsMapping ==
    [][\A v \in Views :
         (last'.op = "assume_init" /\ last'.v = v) =>
             /\ view[v].st = "uninit" /\ view'[v].st = "init"
             /\ view'[v].kind = view[v].kind
             /\ view'[v].m = view[v].m
             /\ last'.res = "ok" /\ last'.mmap = <<>>
             /\ os' = os /\ unmapped' = unmapped /\ file' = file
             /\ nmaps' = nmaps /\ nresizes' = nresizes
             /\ HasMapping(v)'
             /\ OwnersOf(view[v].m.ptr)' = {v}]_vars

C19_Witness ==
    /\ last.op = "assume_init" /\ last.res = "ok"
    /\ view[last.v].st = "init" /\ view[last.v].kind = "scalar"
    /\ MappingOf(last.v).byte_offset > 0
    /\ HasMapping(last.v)

\* the view that the last call opened has n elements of which the first is
\* element k of the file
OpensElements(k, n) ==
    /\ LenOf(last.v) = n
    /\ (k + 1) * ElemSize <= FileSize(file) =>
         Elem(MappingOf(last.v), 0) = [j \in 1 .. ElemSize |-> file[k * ElemSize + j]]

\* C20: on a slice builder offset(k) stores byte_offset = k * element size
\* and len(n) stores byte_len = n * element size; a slice view opened from a
\* request of n >= 1 elements at element offset k has exactly n elements,
\* and its element 0 is element k of the file.
C20_SliceSettersCountElements ==
    [][/\ \A k \in 0 .. MaxLen :
            /\ SetOffset(k) => opts'.byte_offset = k * ElemSize
            /\ SetLen(k) => opts'.byte_len = k * ElemSize
       /\ \A k \in 0 .. MaxLen, n \in 1 .. MaxLen :
            (/\ last'.op = "open" /\ last'.res = "ok"
             /\ view'[last'.v].kind = "slice"
             /\ last'.off = k * ElemSize /\ last'.arg = n * ElemSize) =>
                OpensElements(k, n)']_vars

C20_Witness ==
    /\ last.op = "open" /\ last.res = "ok" /\ view[last.v].kind = "slice"
    /\ last.off = 1 * ElemSize /\ last.arg = 2 * ElemSize
    /\ LenOf(last.v) = 2
    /\ MappingOf(last.v).byte_offset > 0
    /\ Elem(MappingOf(last.v), 0) = <<file[ElemSize + 1], file[ElemSize + 2]>>

\* the mapped size that view v tracks is at least the padding it tracks, so
\* byte_size - byte_offset does not underflow
SizeCoversPadding(v) == MappingOf(v).byte_size >= MappingOf(v).byte_offset

\* the last call was an open that inferred the length from the file's size
InferredOpen ==
    /\ last.op = "open" /\ last.variant \notin FdVariants /\ last.arg = 0
    /\ last.res = "panic" \/ last.req # <<>>

\* C21: every mapping a view holds, after open and after every resize, tracks
\* a mapped size that is at least its padding, so that the logical length
\* byte_size - byte_offset never underflows; and an open that infers the
\* length as file size - byte_offset never does so with a byte_offset beyond
\* the file's size: it neither panics on the subtraction nor requests a
\* wrapped, huge length.
C21_NoUnderflow ==
    /\ \A v \in Views : Live(v) => SizeCoversPadding(v)
    /\ InferredOpen =>
         /\ last.off <= FileSize(file)
         /\ last.res # "panic"
         /\ last.req # <<>> => last.req[1].byte_len = FileSize(file) - last.off

====
